---- MODULE Spec2Model ----
(***************************************************************************)
(* Model of scripts/generate-inference-report.py: the result loader, the   *)
(* metrics deriver, the chart renderer, the table renderer, the README     *)
(* patcher and main's sequence of output writes.                           *)
(*                                                                         *)
(* Text is a sequence of tokens.  A token is one character, except that    *)
(* each sentinel marker is one token: neither marker contains a newline,   *)
(* neither is a substring of the other, and no proper suffix of a marker   *)
(* is a prefix of a marker (only position 0 holds "<"), so occurrences of  *)
(* markers never overlap and no concatenation the patcher performs can     *)
(* create a marker out of pieces.  Substring search for a marker is then   *)
(* search for its token.                                                   *)
(*                                                                         *)
(* Floats are modelled as exact rationals [num, den] in lowest terms with  *)
(* den > 0; Python's None in a float position is the record with den = 0.  *)
(***************************************************************************)
EXTENDS Integers, Sequences, FiniteSets, TLC

VARIABLES
    pc,             \* position of the modelled call
    readme_exists,  \* readme_path.exists()
    readme_text,    \* content of the README file
    readme_prev,    \* history: content of the README before the last write
    block,          \* section text handed to update_readme_section
    patches,        \* history: number of update_readme_section calls so far
    dir_files,      \* <base_dir>/<model_id>/result.json, one per model of the list
    audio_duration, \* audio_duration handed to collect_platform_results
    entries,        \* the entries list of collect_platform_results / of a renderer
    svg,            \* what write_svg_chart drew
    table,          \* the data rows of platform_table_md
    audio_file,     \* the audio fixture main probes
    ios_files,      \* result files under --ios-dir
    android_files,  \* result files under --android-dir
    ios_entries,    \* main's ios_entries
    android_entries,\* main's android_entries
    update_readme,  \* args.update_readme
    disk            \* the four artifacts under --out-dir

patch_vars == <<readme_exists, readme_text, readme_prev, block, patches>>
collect_vars == <<dir_files, audio_duration, entries>>
render_vars == <<svg, table>>
main_vars == <<audio_file, ios_files, android_files, ios_entries, android_entries,
               update_readme, disk>>
vars == <<pc, patch_vars, collect_vars, render_vars, main_vars>>

(***************************************************************************)
(* Bounds                                                                  *)
(***************************************************************************)
MaxDocLen == 4
MaxBlockLen == 1
MaxPatches == 2
NumModels == 2
MaxEntries == 3

(***************************************************************************)
(* Text helpers                                                            *)
(***************************************************************************)
NL == "\n"
start == "<!-- BENCHMARK_RESULTS_START -->"
end == "<!-- BENCHMARK_RESULTS_END -->"
Tokens == {start, end, NL, "a"}

TextsUpTo(n) == UNION {[1..k -> Tokens] : k \in 0..n}

\* `tok in text`
Contains(text, tok) == \E i \in 1..Len(text) : text[i] = tok

\* index of the first occurrence of tok in text (0 when there is none)
Find(text, tok) ==
    IF Contains(text, tok)
    THEN CHOOSE i \in 1..Len(text) :
            text[i] = tok /\ \A j \in 1..(i - 1) : text[j] # tok
    ELSE 0

\* text.split(tok)[0]
SplitHead(text, tok) ==
    IF Contains(text, tok) THEN SubSeq(text, 1, Find(text, tok) - 1) ELSE text

\* text.split(tok, 1)[1], used only when tok occurs in text
SplitTail(text, tok) == SubSeq(text, Find(text, tok) + 1, Len(text))

\* text.lstrip("\n")
RECURSIVE lstrip(_)
lstrip(text) ==
    IF text # <<>> /\ Head(text) = NL THEN lstrip(Tail(text)) ELSE text

\* text.endswith("\n")
endswith_nl(text) == text # <<>> /\ text[Len(text)] = NL

\* f"{start}\n{block}\n{end}\n"
wrapped(blk) == <<start, NL>> \o blk \o <<NL, end, NL>>

\* update_readme_section without the .lstrip("\n") of the suffix
update_readme_section_keep_newlines(text, blk) ==
    IF Contains(text, start) /\ Contains(text, end)
    THEN SplitHead(text, start) \o wrapped(blk) \o SplitTail(text, end)
    ELSE (IF text # <<>> /\ ~endswith_nl(text) THEN text \o <<NL>> ELSE text)
             \o <<NL>> \o wrapped(blk)

\* update_readme_section without the newline that terminates the old text
update_readme_section_no_terminator(text, blk) ==
    IF Contains(text, start) /\ Contains(text, end)
    THEN SplitHead(text, start) \o wrapped(blk) \o lstrip(SplitTail(text, end))
    ELSE text \o <<NL>> \o wrapped(blk)

\* the body of update_readme_section after the file has been read
update_readme_section(text, blk) ==
    IF Contains(text, start) /\ Contains(text, end)
    THEN SplitHead(text, start) \o wrapped(blk) \o lstrip(SplitTail(text, end))
    ELSE (IF text # <<>> /\ ~endswith_nl(text) THEN text \o <<NL>> ELSE text)
             \o <<NL>> \o wrapped(blk)

\* readme_path.read_text() if readme_path.exists() else ""
read_readme == IF readme_exists THEN readme_text ELSE <<>>

(***************************************************************************)
(* Numbers                                                                 *)
(***************************************************************************)
Abs(n) == IF n < 0 THEN -n ELSE n

RECURSIVE GCD(_, _)
GCD(a, b) == IF b = 0 THEN a ELSE GCD(b, a % b)

\* the rational n / d (d # 0) in lowest terms with a positive denominator
Rat(n, d) ==
    LET g == GCD(Abs(n), Abs(d))
        s == IF d < 0 THEN -1 ELSE 1
    IN  [num |-> (s * n) \div g, den |-> (s * d) \div g]

\* Python's None where a float is expected
None == [num |-> 0, den |-> 0]

Zero == Rat(0, 1)
IsNone(r) == r.den = 0
IsPositive(r) == r.den > 0 /\ r.num > 0
RatDiv(a, b) == Rat(a.num * b.den, a.den * b.num)
RatLess(a, b) == a.num * b.den < b.num * a.den

(***************************************************************************)
(* JSON values and Python's conversions of them                            *)
(*                                                                         *)
(* A value is [t, n, s]: its type, its number (or length) and its string.  *)
(* "missing" is a key the dict does not hold.  The string of a transcript  *)
(* is a sequence of characters; every other string is a TLA+ string.       *)
(***************************************************************************)
JMissing == [t |-> "missing", n |-> 0, s |-> ""]
JNull == [t |-> "null", n |-> 0, s |-> ""]
JBool(b) == [t |-> "bool", n |-> IF b THEN 1 ELSE 0, s |-> ""]
JNum(n) == [t |-> "num", n |-> n, s |-> ""]
JStr(s) == [t |-> "str", n |-> 0, s |-> s]
JList(len) == [t |-> "list", n |-> len, s |-> ""]
TMissing == [t |-> "missing", n |-> 0, s |-> <<>>]
TNull == [t |-> "null", n |-> 0, s |-> <<>>]
TStr(chars) == [t |-> "str", n |-> 0, s |-> chars]

\* bool(v)
Truthy(v) ==
    CASE v.t = "bool" -> v.n = 1
      [] v.t = "num" -> v.n # 0
      [] v.t = "str" -> Len(v.s) > 0
      [] v.t = "list" -> v.n > 0
      [] OTHER -> FALSE

\* payload.get(key, default) or default
GetOr(v, default) == IF v.t # "missing" /\ Truthy(v) THEN v ELSE default

Digits == <<"0", "1", "2", "3", "4", "5", "6", "7", "8", "9">>

\* str(v) of a truthy value
str(v) ==
    CASE v.t = "str" -> v.s
      [] v.t = "bool" -> "True"
      [] v.t = "null" -> "None"
      [] v.t = "num" /\ v.n \in 0..9 -> Digits[v.n + 1]

\* the strings of the model that float() parses, with their values
NumericStrings == {"2000"}
ParseFloat(s) == CASE s = "2000" -> 2000

\* float(v) raises ValueError on a non-numeric string, TypeError on a list
float_raises(v) ==
    \/ v.t = "list"
    \/ v.t = "str" /\ v.s \notin NumericStrings

\* float(v) where it does not raise
float(v) ==
    CASE v.t = "num" -> Rat(v.n, 1)
      [] v.t = "bool" -> Rat(v.n, 1)
      [] v.t = "str" -> Rat(ParseFloat(v.s), 1)

(***************************************************************************)
(* Audio probe                                                             *)
(***************************************************************************)
\* audio_duration_seconds: f is [exists, opens, frames, rate]
audio_duration_seconds(f) ==
    IF ~f.exists THEN None
    ELSE IF ~f.opens THEN None
    ELSE IF f.rate <= 0 THEN None
    ELSE Rat(f.frames, f.rate)

(***************************************************************************)
(* Metrics deriver                                                         *)
(***************************************************************************)
WordChars == {"a", "'", "7"}

\* len(re.findall(r"[A-Za-z0-9']+", text)): the number of maximal runs
count_words(text) ==
    Cardinality({i \in 1..Len(text) :
        text[i] \in WordChars /\ (i = 1 \/ text[i - 1] \notin WordChars)})

\* rtf of _entry_from_payload with "audio_duration is not None" in place of
\* the truth test of audio_duration
realtime_factor_not_none(audio_dur, duration_sec) ==
    IF ~IsNone(audio_dur) /\ IsPositive(duration_sec)
    THEN RatDiv(audio_dur, duration_sec) ELSE None

\* (audio_duration / duration_sec) if (audio_duration and duration_sec > 0) else None
realtime_factor(audio_dur, duration_sec) ==
    IF ~IsNone(audio_dur) /\ audio_dur.num # 0 /\ IsPositive(duration_sec)
    THEN RatDiv(audio_dur, duration_sec) ELSE None

\* payload.get("model_id", model_id) without the "or model_id"
entry_model_id_no_or(model_id, d) ==
    str(IF d.model_id.t # "missing" THEN d.model_id ELSE JStr(model_id))

\* str(payload.get("model_id", model_id) or model_id)
entry_model_id(model_id, d) == str(GetOr(d.model_id, JStr(model_id)))

\* the entry of a payload that is None, with no error text
MissingEntryNoError(model_id) ==
    [model_id |-> model_id,
     engine |-> "",
     pass |-> FALSE,
     error |-> JNull,
     transcript |-> <<>>,
     word_count |-> 0,
     duration_ms |-> Zero,
     duration_sec |-> Zero,
     tokens_per_second |-> Zero,
     realtime_factor |-> None]

\* the entry of a payload that is None
MissingEntry(model_id) ==
    [model_id |-> model_id,
     engine |-> "",
     pass |-> FALSE,
     error |-> JStr("missing result.json"),
     transcript |-> <<>>,
     word_count |-> 0,
     duration_ms |-> Zero,
     duration_sec |-> Zero,
     tokens_per_second |-> Zero,
     realtime_factor |-> None]

\* _entry_from_payload raises: payload.get on a value that is no dict, or
\* float() on a duration_ms it cannot convert
entry_raises(payload) ==
    \/ payload.t \notin {"None", "dict"}
    \/ payload.t = "dict" /\ float_raises(GetOr(payload.d.duration_ms, JNum(0)))

\* _entry_from_payload where it returns; payload is [t, d], d the dict
_entry_from_payload(model_id, payload, audio_dur) ==
    IF payload.t = "None" THEN MissingEntry(model_id)
    ELSE
    LET d == payload.d
        transcript == GetOr(d.transcript, TStr(<<>>)).s
        duration_ms == float(GetOr(d.duration_ms, JNum(0)))
        duration_sec == IF IsPositive(duration_ms)
                        THEN RatDiv(duration_ms, Rat(1000, 1)) ELSE Zero
        words == count_words(transcript)
        tps == IF IsPositive(duration_sec)
               THEN RatDiv(Rat(words, 1), duration_sec) ELSE Zero
        rtf == realtime_factor(audio_dur, duration_sec)
    IN  [model_id |-> entry_model_id(model_id, d),
         engine |-> str(GetOr(d.engine, JStr(""))),
         pass |-> Truthy(d.pass),
         error |-> IF d.error.t = "missing" THEN JNull ELSE d.error,
         transcript |-> transcript,
         word_count |-> words,
         duration_ms |-> duration_ms,
         duration_sec |-> duration_sec,
         tokens_per_second |-> tps,
         realtime_factor |-> rtf]

(***************************************************************************)
(* Result loader                                                           *)
(***************************************************************************)
EmptyDict ==
    [model_id |-> JMissing, engine |-> JMissing, pass |-> JMissing,
     error |-> JMissing, transcript |-> TMissing, duration_ms |-> JMissing]

\* _load_result: file is [kind, d]; kind is "absent", "unreadable" (read_text
\* raises), "unparsable" (json.loads raises) or the type of the parsed value
_load_result(file) ==
    IF file.kind = "absent" THEN [t |-> "None", d |-> EmptyDict]
    ELSE IF file.kind \in {"unreadable", "unparsable"}
         THEN [t |-> "None", d |-> EmptyDict]
    ELSE IF file.kind = "null" THEN [t |-> "None", d |-> EmptyDict]
    ELSE [t |-> file.kind, d |-> file.d]

\* collect_platform_results: the loop over model_order from position i on,
\* entries being the list built so far; stops where an iteration raises
RECURSIVE collect_from(_, _, _, _, _)
collect_from(i, entries_so_far, files, model_order, audio_dur) ==
    IF i > Len(model_order)
    THEN [raised |-> FALSE, entries |-> entries_so_far]
    ELSE LET payload == _load_result(files[i])
         IN  IF entry_raises(payload)
             THEN [raised |-> TRUE, entries |-> entries_so_far]
             ELSE collect_from(i + 1,
                      Append(entries_so_far,
                             _entry_from_payload(model_order[i], payload, audio_dur)),
                      files, model_order, audio_dur)

collect_platform_results(files, model_order, audio_dur) ==
    collect_from(1, <<>>, files, model_order, audio_dur)

IOS_MODELS ==
    <<"whisper-tiny", "whisper-base", "whisper-small", "whisper-large-v3-turbo",
      "whisper-large-v3-turbo-compressed", "moonshine-tiny", "moonshine-base",
      "sensevoice-small", "zipformer-20m", "omnilingual-300m", "parakeet-tdt-v3">>

ANDROID_MODELS ==
    <<"whisper-tiny", "whisper-base", "whisper-base-en", "whisper-small",
      "whisper-large-v3-turbo", "whisper-large-v3-turbo-compressed",
      "moonshine-tiny", "moonshine-base", "sensevoice-small",
      "omnilingual-300m", "zipformer-20m">>

(***************************************************************************)
(* Chart renderer                                                          *)
(***************************************************************************)
top == 90
bar_h == 24
gap == 10

\* position at which list.sort(key=tokens_per_second, reverse=True) places
\* entry i among the already sorted indices: behind every entry whose
\* throughput is not smaller (the sort is stable)
InsertPos(sorted, i, es) ==
    IF \E p \in 1..Len(sorted) :
           RatLess(es[sorted[p]].tokens_per_second, es[i].tokens_per_second)
    THEN CHOOSE p \in 1..Len(sorted) :
           /\ RatLess(es[sorted[p]].tokens_per_second, es[i].tokens_per_second)
           /\ \A q \in 1..(p - 1) :
                ~RatLess(es[sorted[q]].tokens_per_second, es[i].tokens_per_second)
    ELSE Len(sorted) + 1

RECURSIVE sort_desc(_, _, _)
sort_desc(idxs, sorted, es) ==
    IF idxs = <<>> THEN sorted
    ELSE LET i == Head(idxs)
             p == InsertPos(sorted, i, es)
         IN  sort_desc(Tail(idxs),
                 SubSeq(sorted, 1, p - 1) \o <<i>> \o SubSeq(sorted, p, Len(sorted)),
                 es)

\* the filter without its duration test
is_measured_tps_only(e) == IsPositive(e.tokens_per_second)

\* [e for e in entries if e["duration_sec"] > 0 and e["tokens_per_second"] > 0]
is_measured(e) == IsPositive(e.duration_sec) /\ IsPositive(e.tokens_per_second)

RECURSIVE measured_from(_, _)
measured_from(i, es) ==
    IF i > Len(es) THEN <<>>
    ELSE (IF is_measured(es[i]) THEN <<i>> ELSE <<>>) \o measured_from(i + 1, es)

\* write_svg_chart: what it draws.  A bar names its entry by the entry's
\* position in the input list (the dict object the bar was drawn from).
write_svg_chart(es) ==
    LET measured == sort_desc(measured_from(1, es), <<>>, es)
        count == IF Len(measured) > 1 THEN Len(measured) ELSE 1
    IN  [height |-> top + count * (bar_h + gap) + 80,
         placeholder |-> measured = <<>>,
         bars |-> [k \in 1..Len(measured) |->
                     [entry |-> measured[k],
                      label |-> es[measured[k]].model_id,
                      value |-> es[measured[k]].tokens_per_second,
                      color |-> IF es[measured[k]].pass THEN "#2563eb" ELSE "#9ca3af"]]]

(***************************************************************************)
(* Table renderer                                                          *)
(***************************************************************************)
\* a table cell: the literal "n/a", an integer, or a number to two decimals
\* (held in hundredths)
CellNA == [k |-> "n/a", v |-> 0]
CellInt(n) == [k |-> "int", v |-> n]

\* fmt_float(value, 2); a tie between two hundredths is rounded up
fmt_float(value) ==
    IF IsNone(value) THEN CellNA
    ELSE [k |-> "fixed2", v |-> (2 * 100 * value.num + value.den) \div (2 * value.den)]

\* one row of platform_table_md
table_row(e) ==
    IF ~IsPositive(e.duration_sec)
    THEN [model |-> e.model_id,
          engine |-> IF e.engine # "" THEN e.engine ELSE "-",
          words |-> CellInt(0),
          duration |-> CellNA,
          tps |-> CellNA,
          rtf |-> CellNA,
          pass_label |-> IF e.pass THEN "PASS" ELSE "FAIL"]
    ELSE [model |-> e.model_id,
          engine |-> IF e.engine # "" THEN e.engine ELSE "-",
          words |-> CellInt(e.word_count),
          duration |-> fmt_float(e.duration_sec),
          tps |-> fmt_float(e.tokens_per_second),
          rtf |-> fmt_float(e.realtime_factor),
          pass_label |-> IF e.pass THEN "PASS" ELSE "FAIL"]

\* platform_table_md: the data rows, in the order of the loop over entries
platform_table_md(es) == [i \in 1..Len(es) |-> table_row(es[i])]

(***************************************************************************)
(* Inputs of the model                                                     *)
(***************************************************************************)
AudioFiles ==
    {[exists |-> FALSE, opens |-> FALSE, frames |-> 0, rate |-> 0],
     [exists |-> TRUE, opens |-> FALSE, frames |-> 0, rate |-> 0],
     [exists |-> TRUE, opens |-> TRUE, frames |-> 160, rate |-> 0],
     [exists |-> TRUE, opens |-> TRUE, frames |-> 0, rate |-> 16],
     [exists |-> TRUE, opens |-> TRUE, frames |-> 160, rate |-> 16]}

BaseDict ==
    [model_id |-> JMissing, engine |-> JStr("whisperkit"), pass |-> JBool(TRUE),
     error |-> JNull, transcript |-> TStr(<<"a", " ", "a">>),
     duration_ms |-> JNum(2000)]

DurationValues ==
    {JMissing, JNum(0), JNum(-500), JNum(2000), JNum(5000), JStr("2000"),
     JStr("fast"), JList(1)}

ModelIdValues ==
    {JNull, JStr(""), JStr(IOS_MODELS[1]), JStr(IOS_MODELS[2]), JNum(7)}

TranscriptValues ==
    {TMissing, TNull, TStr(<<",", " ">>), TStr(<<"a", "'", "a", ",", "7", " ", "a">>)}

Dicts ==
    {[BaseDict EXCEPT !.duration_ms = v] : v \in DurationValues}
    \cup {[BaseDict EXCEPT !.model_id = v] : v \in ModelIdValues}
    \cup {[BaseDict EXCEPT !.transcript = v, !.duration_ms = w] :
             v \in TranscriptValues, w \in {JMissing, JNum(5000)}}
    \cup {[BaseDict EXCEPT !.pass = v, !.engine = JMissing, !.error = JStr("boom")] :
             v \in {JMissing, JBool(FALSE), JStr("no")}}

ResultFiles ==
    {[kind |-> k, d |-> EmptyDict] :
        k \in {"absent", "unreadable", "unparsable", "null", "list", "num"}}
    \cup {[kind |-> "dict", d |-> d] : d \in Dicts \cup {EmptyDict}}

(***************************************************************************)
(* Idle values of the variables a specification does not use               *)
(***************************************************************************)
NoFile == [run |-> 0, whole |-> TRUE, data |-> <<>>]
NoSvg == [height |-> 0, placeholder |-> FALSE, bars |-> <<>>]

IdlePatch ==
    /\ readme_exists = FALSE
    /\ readme_text = <<>>
    /\ readme_prev = <<>>
    /\ block = <<>>
    /\ patches = 0

IdleCollect ==
    /\ dir_files = <<>>
    /\ audio_duration = None
    /\ entries = <<>>

IdleRender ==
    /\ svg = NoSvg
    /\ table = <<>>

IdleMain ==
    /\ audio_file = [exists |-> FALSE, opens |-> FALSE, frames |-> 0, rate |-> 0]
    /\ ios_files = <<>>
    /\ android_files = <<>>
    /\ ios_entries = <<>>
    /\ android_entries = <<>>
    /\ update_readme = FALSE
    /\ disk = [f \in {"ios_svg", "android_svg", "json", "md"} |-> NoFile]

(***************************************************************************)
(* The patcher run repeatedly against one document                         *)
(***************************************************************************)
InitPatch ==
    /\ pc = "patch"
    /\ readme_exists \in BOOLEAN
    /\ readme_text \in TextsUpTo(MaxDocLen)
    /\ (~readme_exists => readme_text = <<>>)
    /\ readme_prev = <<>>
    /\ block \in TextsUpTo(MaxBlockLen)
    /\ patches = 0
    /\ IdleCollect /\ IdleRender /\ IdleMain

UpdateReadme ==
    /\ pc = "patch"
    /\ patches < MaxPatches
    /\ readme_prev' = read_readme
    /\ readme_text' = update_readme_section(read_readme, block)
    /\ readme_exists' = TRUE
    /\ patches' = patches + 1
    /\ UNCHANGED <<pc, block, collect_vars, render_vars, main_vars>>

NextPatch == UpdateReadme

SpecPatch == InitPatch /\ [][NextPatch]_vars

(***************************************************************************)
(* One call of collect_platform_results                                    *)
(***************************************************************************)
model_order == SubSeq(IOS_MODELS, 1, NumModels)

InitCollect ==
    /\ pc = "collect"
    /\ dir_files \in [1..NumModels -> ResultFiles]
    /\ audio_duration \in {audio_duration_seconds(f) : f \in AudioFiles}
    /\ entries = <<>>
    /\ IdlePatch /\ IdleRender /\ IdleMain

\* the call returns its list
CollectReturns ==
    /\ pc = "collect"
    /\ LET r == collect_platform_results(dir_files, model_order, audio_duration)
       IN  /\ ~r.raised
           /\ entries' = r.entries
    /\ pc' = "returned"
    /\ UNCHANGED <<dir_files, audio_duration, patch_vars, render_vars, main_vars>>

\* an iteration raises; entries keeps what the loop had appended before
CollectRaises ==
    /\ pc = "collect"
    /\ LET r == collect_platform_results(dir_files, model_order, audio_duration)
       IN  /\ r.raised
           /\ entries' = r.entries
    /\ pc' = "raised"
    /\ UNCHANGED <<dir_files, audio_duration, patch_vars, render_vars, main_vars>>

NextCollect == CollectReturns \/ CollectRaises

SpecCollect == InitCollect /\ [][NextCollect]_vars

(***************************************************************************)
(* The renderers applied to one entry list                                 *)
(***************************************************************************)
\* entries a renderer may be handed: every combination of measured and
\* unmeasured duration, zero and non-zero throughput, pass and fail
RenderEntries ==
    {[MissingEntry("") EXCEPT
         !.duration_sec = d,
         !.tokens_per_second = v,
         !.pass = ok,
         !.word_count = IF v = Zero THEN 0 ELSE 3,
         !.realtime_factor = IF ok THEN Rat(3, 2) ELSE None] :
        d \in {Zero, Rat(2, 1)},
        v \in {Zero, Rat(1, 2), Rat(3, 2)},
        ok \in BOOLEAN}

InitRender ==
    /\ pc = "render"
    /\ \E n \in 0..MaxEntries :
          entries \in {[i \in 1..n |-> [es[i] EXCEPT !.model_id = IOS_MODELS[i]]] :
                          es \in [1..n -> RenderEntries]}
    /\ svg = NoSvg
    /\ table = <<>>
    /\ dir_files = <<>>
    /\ audio_duration = None
    /\ IdlePatch /\ IdleMain

WriteSvgChart ==
    /\ pc = "render"
    /\ svg' = write_svg_chart(entries)
    /\ pc' = "charted"
    /\ UNCHANGED <<table, collect_vars, patch_vars, main_vars>>

PlatformTableMd ==
    /\ pc = "charted"
    /\ table' = platform_table_md(entries)
    /\ pc' = "rendered"
    /\ UNCHANGED <<svg, collect_vars, patch_vars, main_vars>>

NextRender == WriteSvgChart \/ PlatformTableMd

SpecRender == InitRender /\ [][NextRender]_vars

(***************************************************************************)
(* One run of main                                                         *)
(***************************************************************************)
\* what build_report_markdown renders from its arguments: the fixture line
\* and the two tables (the rest of the report is fixed text)
build_report_markdown(audio_dur, ios_es, android_es) ==
    [audio_line |-> IF ~IsNone(audio_dur) /\ audio_dur.num # 0
                    THEN fmt_float(audio_dur) ELSE CellNA,
     ios_table |-> platform_table_md(ios_es),
     android_table |-> platform_table_md(android_es)]

\* the dict main dumps into inference_results.json
combined(audio_dur, ios_es, android_es) ==
    [audio_duration_sec |-> audio_dur, ios |-> ios_es, android |-> android_es]

\* report_md as the text handed to update_readme_section: non-empty, free
\* of markers for the inputs of this specification, ending in a newline
report_text == <<"a", NL>>

MainFiles ==
    {[kind |-> "absent", d |-> EmptyDict],
     [kind |-> "list", d |-> EmptyDict],
     [kind |-> "dict", d |-> BaseDict]}

Artifacts == {"ios_svg", "android_svg", "json", "md"}

InitMain ==
    /\ pc = "main"
    /\ audio_file \in {f \in AudioFiles : f.opens => f.rate > 0}
    /\ ios_files \in [1..NumModels -> MainFiles]
    /\ android_files \in [1..NumModels -> MainFiles]
    /\ ios_entries = <<>>
    /\ android_entries = <<>>
    /\ update_readme \in BOOLEAN
    /\ disk = [f \in Artifacts |-> NoFile]
    /\ readme_exists \in BOOLEAN
    /\ readme_text = (IF readme_exists THEN <<"a", NL>> \o wrapped(<<"a">>) ELSE <<>>)
    /\ readme_prev = <<>>
    /\ block = <<>>
    /\ patches = 0
    /\ audio_duration = None
    /\ dir_files = <<>>
    /\ entries = <<>>
    /\ IdleRender

\* Path.write_text succeeds
Written(f, data) ==
    disk' = [disk EXCEPT ![f] = [run |-> 1, whole |-> TRUE, data |-> data]]

\* Path.write_text raises: before it opened the file, or after it
\* truncated the file
WriteFailed(f) ==
    \/ disk' = disk
    \/ disk' = [disk EXCEPT ![f] = [run |-> 1, whole |-> FALSE, data |-> <<>>]]

main_inputs == <<audio_file, ios_files, android_files, update_readme>>

\* lines 313-316, both calls returning
MainCollect ==
    /\ pc = "main"
    /\ LET a == audio_duration_seconds(audio_file)
           i == collect_platform_results(ios_files, SubSeq(IOS_MODELS, 1, NumModels), a)
           d == collect_platform_results(android_files,
                                         SubSeq(ANDROID_MODELS, 1, NumModels), a)
       IN  /\ ~i.raised /\ ~d.raised
           /\ audio_duration' = a
           /\ ios_entries' = i.entries
           /\ android_entries' = d.entries
    /\ pc' = "ios_svg"
    /\ UNCHANGED <<main_inputs, disk, dir_files, entries, patch_vars, render_vars>>

\* lines 313-316, one of the calls raising
MainCollectRaises ==
    /\ pc = "main"
    /\ LET a == audio_duration_seconds(audio_file)
           i == collect_platform_results(ios_files, SubSeq(IOS_MODELS, 1, NumModels), a)
           d == collect_platform_results(android_files,
                                         SubSeq(ANDROID_MODELS, 1, NumModels), a)
       IN  /\ i.raised \/ d.raised
           /\ audio_duration' = a
    /\ pc' = "aborted"
    /\ UNCHANGED <<main_inputs, ios_entries, android_entries, disk, dir_files,
                   entries, patch_vars, render_vars>>

main_frame == <<main_inputs, ios_entries, android_entries, collect_vars,
                patch_vars, render_vars>>

WriteIosSvg ==
    /\ pc = "ios_svg"
    /\ Written("ios_svg", write_svg_chart(ios_entries))
    /\ pc' = "android_svg"
    /\ UNCHANGED main_frame

WriteIosSvgFails ==
    /\ pc = "ios_svg"
    /\ WriteFailed("ios_svg")
    /\ pc' = "aborted"
    /\ UNCHANGED main_frame

WriteAndroidSvg ==
    /\ pc = "android_svg"
    /\ Written("android_svg", write_svg_chart(android_entries))
    /\ pc' = "json"
    /\ UNCHANGED main_frame

WriteAndroidSvgFails ==
    /\ pc = "android_svg"
    /\ WriteFailed("android_svg")
    /\ pc' = "aborted"
    /\ UNCHANGED main_frame

WriteJson ==
    /\ pc = "json"
    /\ Written("json", combined(audio_duration, ios_entries, android_entries))
    /\ pc' = "md"
    /\ UNCHANGED main_frame

WriteJsonFails ==
    /\ pc = "json"
    /\ WriteFailed("json")
    /\ pc' = "aborted"
    /\ UNCHANGED main_frame

WriteMd ==
    /\ pc = "md"
    /\ Written("md", build_report_markdown(audio_duration, ios_entries, android_entries))
    /\ pc' = (IF update_readme THEN "readme" ELSE "done")
    /\ UNCHANGED main_frame

WriteMdFails ==
    /\ pc = "md"
    /\ WriteFailed("md")
    /\ pc' = "aborted"
    /\ UNCHANGED main_frame

MainUpdateReadme ==
    /\ pc = "readme"
    /\ block' = report_text
    /\ readme_prev' = read_readme
    /\ readme_text' = update_readme_section(read_readme, report_text)
    /\ readme_exists' = TRUE
    /\ patches' = patches + 1
    /\ pc' = "done"
    /\ UNCHANGED <<main_vars, collect_vars, render_vars>>

MainUpdateReadmeFails ==
    /\ pc = "readme"
    /\ \/ UNCHANGED <<readme_exists, readme_text>>
       \/ readme_exists' = TRUE /\ readme_text' = <<>>
    /\ pc' = "aborted"
    /\ UNCHANGED <<readme_prev, block, patches, main_vars, collect_vars, render_vars>>

NextMain ==
    \/ MainCollect \/ MainCollectRaises
    \/ WriteIosSvg \/ WriteIosSvgFails
    \/ WriteAndroidSvg \/ WriteAndroidSvgFails
    \/ WriteJson \/ WriteJsonFails
    \/ WriteMd \/ WriteMdFails
    \/ MainUpdateReadme \/ MainUpdateReadmeFails

SpecMain == InitMain /\ [][NextMain]_vars

(***************************************************************************)
(* Claims about the document patcher (checked under SpecPatch)             *)
(***************************************************************************)
Count(text, tok) == Cardinality({i \in 1..Len(text) : text[i] = tok})

HasBoth(text) == Contains(text, start) /\ Contains(text, end)
HasNeither(text) == ~Contains(text, start) /\ ~Contains(text, end)

\* number of newline tokens at the front of text
LeadingNewlines(text) ==
    CHOOSE n \in 0..Len(text) :
        /\ \A p \in 1..n : text[p] = NL
        /\ (n = Len(text) \/ text[n + 1] # NL)

\* position, in the patched document, of the end marker the patcher emitted
\* when the block was spliced in at position i
EmittedEnd(i) == i + Len(block) + 3

\* the new block stands at positions i .. EmittedEnd(i) of the document
BlockAt(text, i) ==
    /\ Len(text) >= EmittedEnd(i)
    /\ text[i] = start
    /\ text[i + 1] = NL
    /\ \A p \in 1..Len(block) : text[i + 1 + p] = block[p]
    /\ text[EmittedEnd(i) - 1] = NL
    /\ text[EmittedEnd(i)] = end

\* C1: patching twice with the same section gives the same bytes as patching
\* once: the second call of update_readme_section leaves the document as the
\* first call left it.  Stated for the sections that contain no marker,
\* which the claim covers with every other section: a document for which
\* this fails refutes the claim for an ordinary section.
C1_Idempotent ==
    (patches >= 2 /\ HasNeither(block)) => readme_text = readme_prev

\* C2 (as claimed): with both markers present, the text before the first
\* start marker and the text after the first end marker are both unchanged,
\* and the markers with the new section stand between them.
C2_ReplaceFrame ==
    (patches >= 1 /\ HasBoth(readme_prev)) =>
        LET i == Find(readme_prev, start)
            j == Find(readme_prev, end)
        IN  /\ BlockAt(readme_text, i)
            /\ SubSeq(readme_text, 1, i - 1) = SubSeq(readme_prev, 1, i - 1)
            /\ SubSeq(readme_text, EmittedEnd(i) + 1, Len(readme_text))
                  = SubSeq(readme_prev, j + 1, Len(readme_prev))

\* C2 (amended): with both markers present, the result is the text before
\* the first start marker unchanged, the start marker, a newline, the
\* section, a newline, the end marker, one newline, and then the text that
\* followed the first end marker without its leading newlines.
C2_ReplaceFrameAmended ==
    (patches >= 1 /\ HasBoth(readme_prev)) =>
        LET i == Find(readme_prev, start)
            j == Find(readme_prev, end)
            tail == SubSeq(readme_prev, j + 1, Len(readme_prev))
            k == EmittedEnd(i)
        IN  /\ BlockAt(readme_text, i)
            /\ SubSeq(readme_text, 1, i - 1) = SubSeq(readme_prev, 1, i - 1)
            /\ Len(readme_text) > k
            /\ readme_text[k + 1] = NL
            /\ SubSeq(readme_text, k + 2, Len(readme_text))
                  = SubSeq(tail, LeadingNewlines(tail) + 1, Len(tail))

\* a replace in which the start marker came first, newlines after the end
\* marker were dropped and text after them was kept
C2_Witness ==
    /\ patches >= 1
    /\ HasBoth(readme_prev)
    /\ Find(readme_prev, start) < Find(readme_prev, end)
    /\ LET tail == SubSeq(readme_prev, Find(readme_prev, end) + 1, Len(readme_prev))
       IN  LeadingNewlines(tail) >= 1 /\ LeadingNewlines(tail) < Len(tail)

\* what C3 says of the result of appending to the document prev
AppendShape(prev, text) ==
    /\ Count(text, start) = 1
    /\ Count(text, end) = 1
    /\ LET s == Find(text, start)
           e == Find(text, end)
       IN  /\ s < e
           /\ SubSeq(text, s + 1, e - 1) = <<NL>> \o block \o <<NL>>
           /\ Len(prev) < s
           /\ SubSeq(text, 1, Len(prev)) = prev
           /\ \A p \in (Len(prev) + 1)..(s - 1) : text[p] = NL
           /\ s - 1 - Len(prev) = (IF prev = <<>> \/ endswith_nl(prev) THEN 1 ELSE 2)
           /\ e = Len(text) - 1
           /\ text[Len(text)] = NL

\* C3 (as claimed): appending to a document with neither marker gives exactly
\* one start and one end marker with the section between them, after the
\* unchanged original content and one blank line, at the end of the document.
C3_AppendPath ==
    (patches >= 1 /\ HasNeither(readme_prev)) => AppendShape(readme_prev, readme_text)

\* C3 (amended): the same, for a section that itself contains neither marker.
C3_AppendPathAmended ==
    (patches >= 1 /\ HasNeither(readme_prev) /\ HasNeither(block)) =>
        AppendShape(readme_prev, readme_text)

\* an append to a non-empty document that did not end in a newline
C3_Witness ==
    /\ patches = 1
    /\ HasNeither(readme_prev)
    /\ HasNeither(block)
    /\ readme_prev # <<>>
    /\ ~endswith_nl(readme_prev)
    /\ block # <<>>

(***************************************************************************)
(* Claims about the loader and the deriver (checked under SpecCollect)     *)
(***************************************************************************)
MissingKinds == {"absent", "unreadable", "unparsable"}

\* C4: whatever the result files hold, collect_platform_results completes
\* and returns exactly one entry per model of the list, in the list's order.
C4_OneEntryPerModel ==
    pc # "collect" =>
        /\ pc = "returned"
        /\ Len(entries) = Len(model_order)

\* C5: a result file that is absent, unreadable or unparsable never makes the
\* call raise, and its entry has duration_sec = 0, tokens_per_second = 0,
\* realtime_factor = null and error = "missing result.json".
C5_MissingBecomesAbsence ==
    pc # "collect" =>
        \A i \in 1..Len(model_order) :
            dir_files[i].kind \in MissingKinds =>
                /\ ~(pc = "raised" /\ Len(entries) = i - 1)
                /\ i <= Len(entries) =>
                      /\ entries[i].duration_sec = Zero
                      /\ entries[i].tokens_per_second = Zero
                      /\ entries[i].realtime_factor = None
                      /\ entries[i].error = JStr("missing result.json")

\* a returned call whose two files were missing in two different ways
C5_Witness ==
    /\ pc = "returned"
    /\ dir_files[1].kind = "unparsable"
    /\ dir_files[2].kind = "unreadable"
    /\ Len(entries) = 2

C9_ModelIdIsRequested ==
    pc # "collect" =>
        \A i \in 1..Len(entries) : entries[i].model_id = model_order[i]

\* C9 (amended): an entry carries the requested model id when the payload
\* is absent or its model_id is missing, null or empty; a non-empty
\* model_id of the payload is kept as the entry's model_id, converted to a
\* string, also when it differs from the requested one.
C9_ModelIdAmended ==
    pc # "collect" =>
        \A i \in 1..Len(entries) :
            LET f == dir_files[i]
                m == f.d.model_id
            IN  IF \/ f.kind # "dict"
                   \/ m.t \in {"missing", "null"}
                   \/ (m.t = "str" /\ m.s = "")
                THEN entries[i].model_id = model_order[i]
                ELSE /\ m.t = "str" => entries[i].model_id = m.s
                     /\ m.t = "num" => entries[i].model_id = Digits[m.n + 1]

\* a returned list whose second entry carries the first model's id, taken
\* from its payload, while the first payload's empty id was replaced
C9_Witness ==
    /\ pc = "returned"
    /\ dir_files[1].kind = "dict"
    /\ dir_files[1].d.model_id = JStr("")
    /\ dir_files[2].kind = "dict"
    /\ dir_files[2].d.model_id = JStr(model_order[1])
    /\ entries[2].model_id # model_order[2]

(***************************************************************************)
(* Claims about the renderers (checked under SpecRender)                   *)
(***************************************************************************)
\* C7: the bars are exactly the entries with duration_sec > 0 and
\* tokens_per_second > 0, each once, whatever their pass flag, in
\* non-increasing throughput with equal throughputs in input order; the
\* placeholder label is drawn exactly when there is no bar.
C7_ChartBars ==
    pc \in {"charted", "rendered"} =>
        LET B == svg.bars
            tps(k) == entries[B[k].entry].tokens_per_second
        IN  /\ {B[k].entry : k \in 1..Len(B)}
                  = {i \in 1..Len(entries) :
                        /\ entries[i].duration_sec.num > 0
                        /\ entries[i].tokens_per_second.num > 0}
            /\ \A k, l \in 1..Len(B) :
                  k < l =>
                     /\ B[k].entry # B[l].entry
                     /\ tps(k).num * tps(l).den >= tps(l).num * tps(k).den
                     /\ tps(k) = tps(l) => B[k].entry < B[l].entry
            /\ \A k \in 1..Len(B) :
                  /\ B[k].value = tps(k)
                  /\ B[k].label = entries[B[k].entry].model_id
            /\ svg.placeholder <=> (Len(B) = 0)

\* three entries: the first unmeasured with a non-zero throughput and left
\* out, the other two drawn with the same throughput in input order
C7_Witness ==
    /\ pc = "charted"
    /\ Len(entries) = 3
    /\ entries[1].duration_sec = Zero
    /\ entries[1].tokens_per_second # Zero
    /\ Len(svg.bars) = 2
    /\ svg.bars[1].value = svg.bars[2].value
    /\ entries[2].pass # entries[3].pass

\* C8: the table has one row per entry in input order, and a row whose
\* entry has duration_sec <= 0 shows the placeholder in all four numeric
\* columns (Words, Duration, Tok/s, RTF) and still shows PASS or FAIL.
C8_UnmeasuredRowIsPlaceholder ==
    pc = "rendered" =>
        /\ Len(table) = Len(entries)
        /\ \A i \in 1..Len(entries) :
              /\ table[i].model = entries[i].model_id
              /\ table[i].pass_label = (IF entries[i].pass THEN "PASS" ELSE "FAIL")
              /\ entries[i].duration_sec.num <= 0 =>
                    /\ table[i].words = CellNA
                    /\ table[i].duration = CellNA
                    /\ table[i].tps = CellNA
                    /\ table[i].rtf = CellNA

(***************************************************************************)
(* Claim about main (checked under SpecMain)                               *)
(***************************************************************************)
\* C10: when a run of main has ended, by finishing or by an output write
\* that failed, the four artifacts are consistent: either all four were
\* produced by this run or none of them was touched by it.
C10_ArtifactsAllOrNothing ==
    pc \in {"done", "aborted"} =>
        \/ \A f \in Artifacts : disk[f].run = 1 /\ disk[f].whole
        \/ \A f \in Artifacts : disk[f].run = 0

====
